---------------------------- MODULE Spec2Model ----------------------------
(***************************************************************************)
(* State-machine model of the DocuMind document question-answering         *)
(* backend: the two routes POST /hackrx/run and POST /hackrx/upload, the   *)
(* bearer-token middleware, the Joi request validator, the PDF text        *)
(* extractor, the Gemini answer generator and the RAG orchestrator.        *)
(*                                                                         *)
(* Every `await` of the JavaScript code is a point where a request yields; *)
(* an action is the synchronous code that runs between two such points.    *)
(* The collaborators outside the repository (HTTP download, pdf-parse, the *)
(* generative service, the file system) reply with a nondeterministically  *)
(* chosen outcome.                                                         *)
(***************************************************************************)
EXTENDS Naturals, Sequences, FiniteSets, TLC

VARIABLES
    request,     \* request[r]: what the client sent (route, header, body, file part)
    pc,          \* pc[r]: where request r is suspended
    file,        \* file[r]: req.file after upload.single (staged path or none)
    content,     \* content[r]: documentContent of the orchestrator
    answers,     \* answers[r]: the answers array of processQuestions
    idx,         \* idx[r]: the loop index i of processQuestions
    calls,       \* calls[r]: log of the generation calls made for r
    extraction,  \* extraction[r]: log of the extraction attempts made for r
    outcomes,    \* outcomes[r]: what the download/read and the parse did, per attempt
    raised,      \* raised[r]: errors thrown by the orchestrator to the route
    responses,   \* responses[r]: the HTTP responses written for r
    trace,       \* trace[r]: the pipeline steps request r went through, in order
    disk,        \* the uploads directory: set of staged paths that exist
    probe,       \* the argument a utility function is called with
    result       \* what the utility functions returned, call after call

vars == <<request, pc, file, content, answers, idx, calls, extraction, outcomes,
          raised, responses, trace, disk, probe, result>>

-----------------------------------------------------------------------------
(* Bounds of the model *)

\* longest freely composed question list of a request body
MaxListLen == 2

(* Program constants *)

MinQuestionLen == 5
MaxQuestionLen == 1000
MinQuestions == 1
MaxQuestions == 10
BearerPrefixLen == 7

\* process.env.AUTH_BEARER_TOKEN
ExpectedToken == "s3cret"

Reqs == {1, 2}

-----------------------------------------------------------------------------
(* Strings *)

StartsWith(s, p) == Len(s) >= Len(p) /\ SubSeq(s, 1, Len(p)) = p

\* String.prototype.substring(from), from counted from 0
Substring(s, from) == SubSeq(s, from + 1, Len(s))

RECURSIVE Rep(_, _)
Rep(s, n) ==
    IF n = 0 THEN ""
    ELSE LET h == Rep(s, n \div 2)
         IN  IF n % 2 = 0 THEN h \o h ELSE h \o h \o s

Whitespace == {" ", "\t", "\n"}

RECURSIVE TrimLeft(_)
TrimLeft(s) ==
    IF Len(s) > 0 /\ SubSeq(s, 1, 1) \in Whitespace
    THEN TrimLeft(SubSeq(s, 2, Len(s)))
    ELSE s

RECURSIVE TrimRight(_)
TrimRight(s) ==
    IF Len(s) > 0 /\ SubSeq(s, Len(s), Len(s)) \in Whitespace
    THEN TrimRight(SubSeq(s, 1, Len(s) - 1))
    ELSE s

\* String.prototype.trim
Trim(s) == TrimRight(TrimLeft(s))

-----------------------------------------------------------------------------
(* JSON values as they arrive in req.body: a type tag, the text of a       *)
(* scalar, the items of an array.                                          *)

JStr(s) == [t |-> "string", s |-> s, a |-> <<>>]
JNum(s) == [t |-> "number", s |-> s, a |-> <<>>]
JArr(items) == [t |-> "array", s |-> "", a |-> items]
JObj == [t |-> "object", s |-> "[object Object]", a |-> <<>>]
JUndefined == [t |-> "undefined", s |-> "undefined", a |-> <<>>]

\* `${v}` of a template literal
ToText(v) == v.s

-----------------------------------------------------------------------------
(* HTTP responses: res.status(status).json({error, message, details, answers}) *)

Response(status, error, message, details, ans) ==
    [status |-> status, error |-> error, message |-> message,
     details |-> details, answers |-> ans]

ErrorResponse(status, error, message) == Response(status, error, message, <<>>, <<>>)

(* Errors: error.name, error.message, error.status, error.code and, for an  *)
(* axios failure that carries an HTTP response, error.response             *)
Err(name, message) ==
    [name |-> name, message |-> message, status |-> 0, code |-> "", response |-> ""]

-----------------------------------------------------------------------------
(* middleware/auth.js: authMiddleware.  The result says whether next() is  *)
(* called and, when it is not, the response the middleware writes.         *)

NoHeader == [present |-> FALSE, value |-> ""]
Header(v) == [present |-> TRUE, value |-> v]

\* !authHeader: undefined or the empty string
HeaderMissing(h) == ~h.present \/ h.value = ""

HasBearerPrefix(h) == StartsWith(h.value, "Bearer ")

TokenOf(h) == Substring(h.value, BearerPrefixLen)

AuthDenied(error, message) ==
    [next |-> FALSE, response |-> ErrorResponse(401, error, message)]

AuthPassed == [next |-> TRUE, response |-> ErrorResponse(0, "", "")]

\* a variant of authMiddleware without the check of the "Bearer " prefix
authMiddlewareNoPrefixCheck(h) ==
    IF HeaderMissing(h)
    THEN AuthDenied("Authentication required", "Authorization header is missing")
    ELSE IF TokenOf(h) # ExpectedToken
    THEN AuthDenied("Authentication failed", "Invalid bearer token")
    ELSE AuthPassed

authMiddleware(h) ==
    IF HeaderMissing(h)
    THEN AuthDenied("Authentication required", "Authorization header is missing")
    ELSE IF ~HasBearerPrefix(h)
    THEN AuthDenied("Invalid authentication format",
                    "Authorization header must use Bearer token format")
    ELSE IF TokenOf(h) # ExpectedToken
    THEN AuthDenied("Authentication failed", "Invalid bearer token")
    ELSE AuthPassed

-----------------------------------------------------------------------------
(* utils/validator.js: runRequestSchema and validateRequest.  A violation  *)
(* is {field, message, value}; Joi runs with abortEarly: false and        *)
(* collects them.                                                          *)

Violation(field, message, value) ==
    [field |-> field, message |-> message, value |-> value]

\* Joi.string().uri({scheme: ['http', 'https'], allowRelative: false}):
\* the scheme, then ":" and the "//authority" form of the hierarchical part
IsHttpUri(s) ==
    \/ StartsWith(s, "http://") /\ Len(s) > Len("http://")
    \/ StartsWith(s, "https://") /\ Len(s) > Len("https://")

documentsViolations(d) ==
    IF d.t = "undefined"
    THEN <<Violation("documents", "Documents field is required", d)>>
    ELSE IF d.t # "string"
    THEN <<Violation("documents", "\"documents\" must be a string", d)>>
    ELSE IF d.s = ""
    THEN <<Violation("documents", "\"documents\" is not allowed to be empty", d)>>
    ELSE IF ~IsHttpUri(d.s)
    THEN <<Violation("documents",
            "\"documents\" must be a valid uri with a scheme matching the http|https pattern", d)>>
    ELSE <<>>

IndexText(i) ==
    CASE i = 0 -> "0" [] i = 1 -> "1" [] i = 2 -> "2" [] i = 3 -> "3"
      [] i = 4 -> "4" [] i = 5 -> "5" [] i = 6 -> "6" [] i = 7 -> "7"
      [] i = 8 -> "8" [] i = 9 -> "9" [] i = 10 -> "10" [] i = 11 -> "11"
      [] OTHER -> "n"

\* a variant of questionItemViolations whose upper bound is exclusive
questionItemViolationsMaxExclusive(q, i) ==
    LET field == "questions." \o IndexText(i)
    IN  IF q.t # "string"
        THEN <<Violation(field, "\"questions[" \o IndexText(i) \o "]\" must be a string", q)>>
        ELSE IF Len(q.s) < MinQuestionLen
        THEN <<Violation(field, "Each question must be at least 5 characters long", q)>>
        ELSE IF Len(q.s) >= MaxQuestionLen
        THEN <<Violation(field, "Each question must not exceed 1000 characters", q)>>
        ELSE <<>>

\* Joi.string().min(5).max(1000).required() on item i (0-based) of questions;
\* the length is that of the string as sent: the schema has no trim()
questionItemViolations(q, i) ==
    LET field == "questions." \o IndexText(i)
    IN  IF q.t # "string"
        THEN <<Violation(field, "\"questions[" \o IndexText(i) \o "]\" must be a string", q)>>
        ELSE IF q.s = ""
        THEN <<Violation(field,
                "\"questions[" \o IndexText(i) \o "]\" is not allowed to be empty", q)>>
        ELSE IF Len(q.s) < MinQuestionLen
        THEN <<Violation(field, "Each question must be at least 5 characters long", q)>>
        ELSE IF Len(q.s) > MaxQuestionLen
        THEN <<Violation(field, "Each question must not exceed 1000 characters", q)>>
        ELSE <<>>

RECURSIVE itemsViolations(_, _)
\* the violations of items k..Len(items) (1-based k), in index order
itemsViolations(items, k) ==
    IF k > Len(items) THEN <<>>
    ELSE questionItemViolations(items[k], k - 1) \o itemsViolations(items, k + 1)

\* a variant of questionsViolations whose array has no max(10)
questionsViolationsNoMax(qv) ==
    IF qv.t = "undefined"
    THEN <<Violation("questions", "Questions field is required", qv)>>
    ELSE IF qv.t # "array"
    THEN <<Violation("questions", "\"questions\" must be an array", qv)>>
    ELSE itemsViolations(qv.a, 1)
         \o (IF \A k \in 1..Len(qv.a) : questionItemViolations(qv.a[k], k - 1) # <<>>
             THEN <<Violation("questions",
                              "\"questions\" does not contain 1 required value(s)", qv)>>
             ELSE <<>>)
         \o (IF Len(qv.a) < MinQuestions
             THEN <<Violation("questions", "At least one question is required", qv)>>
             ELSE <<>>)

\* Joi.array().items(<required item>).min(1).max(10).required()
questionsViolations(qv) ==
    IF qv.t = "undefined"
    THEN <<Violation("questions", "Questions field is required", qv)>>
    ELSE IF qv.t # "array"
    THEN <<Violation("questions", "\"questions\" must be an array", qv)>>
    ELSE itemsViolations(qv.a, 1)
         \o (IF \A k \in 1..Len(qv.a) : questionItemViolations(qv.a[k], k - 1) # <<>>
             THEN <<Violation("questions",
                              "\"questions\" does not contain 1 required value(s)", qv)>>
             ELSE <<>>)
         \o (IF Len(qv.a) < MinQuestions
             THEN <<Violation("questions", "At least one question is required", qv)>>
             ELSE <<>>)
         \o (IF Len(qv.a) > MaxQuestions
             THEN <<Violation("questions", "Maximum 10 questions allowed per request", qv)>>
             ELSE <<>>)

\* the value sent under a key the schema does not know
ExtraValue == JStr("debug")

\* a variant of unknownKeyViolations with allowUnknown: true
unknownKeyViolationsAllowed(body) == <<>>

\* allowUnknown: false
unknownKeyViolations(body) ==
    IF body.extra
    THEN <<Violation("extra", "\"extra\" is not allowed", ExtraValue)>>
    ELSE <<>>

\* a variant of validateRequest that stops at the first violation, as Joi
\* does with abortEarly: true
validateRequestAbortEarly(body) ==
    LET errors == documentsViolations(body.documents)
                  \o questionsViolations(body.questions)
                  \o unknownKeyViolations(body)
    IN  [isValid |-> errors = <<>>,
         errors |-> IF errors = <<>> THEN <<>> ELSE <<errors[1]>>]

validateRequest(body) ==
    LET errors == documentsViolations(body.documents)
                  \o questionsViolations(body.questions)
                  \o unknownKeyViolations(body)
    IN  [isValid |-> errors = <<>>, errors |-> errors]

-----------------------------------------------------------------------------
(* services/pdfService.js *)

\* a variant of NoExtractableText that tests for the empty string only
NoExtractableTextEmptyOnly(text) == text = ""

\* !text || text.trim().length === 0
NoExtractableText(text) == text = "" \/ Len(Trim(text)) = 0

\* What the download and the parse did: the error they threw, or the text
Threw(e) == [threw |-> TRUE, error |-> e, text |-> ""]
Parsed(text) == [threw |-> FALSE, error |-> Err("", ""), text |-> text]

\* The result of an extraction: the text returned or the error thrown
Extracted(text) == [ok |-> TRUE, text |-> text, error |-> Err("", "")]
ExtractionFailed(message) == [ok |-> FALSE, text |-> "", error |-> Err("Error", message)]

\* a variant of classifyUrlError that looks at error.code before
\* error.response
classifyUrlErrorCodeFirst(e) ==
    IF e.code = "ENOTFOUND"
    THEN ExtractionFailed("PDF document not found at the provided URL")
    ELSE IF e.code = "ETIMEDOUT"
    THEN ExtractionFailed("Timeout while downloading PDF document")
    ELSE IF e.response # ""
    THEN ExtractionFailed("Failed to download PDF: " \o e.response)
    ELSE ExtractionFailed("PDF processing failed: " \o e.message)

\* the catch block of extractTextFromUrl
classifyUrlError(e) ==
    IF e.response # ""
    THEN ExtractionFailed("Failed to download PDF: " \o e.response)
    ELSE IF e.code = "ENOTFOUND"
    THEN ExtractionFailed("PDF document not found at the provided URL")
    ELSE IF e.code = "ETIMEDOUT"
    THEN ExtractionFailed("Timeout while downloading PDF document")
    ELSE ExtractionFailed("PDF processing failed: " \o e.message)

extractTextFromUrl(o) ==
    IF o.threw THEN classifyUrlError(o.error)
    ELSE IF NoExtractableText(o.text)
    THEN classifyUrlError(Err("Error", "PDF contains no extractable text"))
    ELSE Extracted(o.text)

extractTextFromFile(exists, o) ==
    IF ~exists
    THEN ExtractionFailed("PDF file processing failed: PDF file not found")
    ELSE IF o.threw
    THEN ExtractionFailed("PDF file processing failed: " \o o.error.message)
    ELSE IF NoExtractableText(o.text)
    THEN ExtractionFailed("PDF file processing failed: PDF contains no extractable text")
    ELSE Extracted(o.text)

-----------------------------------------------------------------------------
(* services/geminiService.js *)

\* the prompt of generateAnswer; the empty string is falsy
BuildPrompt(question, documentContent) ==
    IF documentContent # ""
    THEN "Based on the following document content, answer the question.\n\nDocument Content:\n"
         \o documentContent \o "\n\nQuestion: " \o ToText(question) \o "\n\nAnswer:"
    ELSE "Answer the following question: " \o ToText(question)

\* What the generative service did with a prompt
ServiceFailed(message) == [threw |-> TRUE, message |-> message, text |-> ""]
ServiceReturned(text) == [threw |-> FALSE, message |-> "", text |-> text]

Generated(text) == [ok |-> TRUE, text |-> text, error |-> Err("", "")]
GenerationFailed(message) ==
    [ok |-> FALSE, text |-> "", error |-> Err("Error", "Gemini API error: " \o message)]

\* generateAnswer once the service call has settled: the text, or the error
\* rethrown by its catch block (question.substring exists on strings only)
generateAnswer(question, o) ==
    IF o.threw THEN GenerationFailed(o.message)
    ELSE IF question.t # "string"
    THEN GenerationFailed("question.substring is not a function")
    ELSE Generated(o.text)

\* a variant of FallbackAnswer that does not embed the question
FallbackAnswerNoQuestion(question) == "Sorry, I couldn't process this question"

FallbackAnswer(question) ==
    "Sorry, I couldn't process this question: " \o ToText(question)

\* a variant of pushAnswer that leaves the slot of a failed question out
pushAnswerSkipFailed(ans, question, g) ==
    IF g.ok THEN Append(ans, g.text) ELSE ans

\* answers.push(...) of processQuestions, in the try and in the catch
pushAnswer(ans, question, g) ==
    IF g.ok THEN Append(ans, g.text) ELSE Append(ans, FallbackAnswer(question))

-----------------------------------------------------------------------------
(* middleware/errorHandler.js: errorHandler *)

Includes(message, word) ==
    \E k \in 1..Len(message) :
        k + Len(word) - 1 <= Len(message) /\ SubSeq(message, k, k + Len(word) - 1) = word

\* the status and the error and message fields errorHandler answers with
errorHandlerResponse(e) ==
    IF e.name = "ValidationError"
    THEN ErrorResponse(400, "Validation Error", e.message)
    ELSE IF e.name = "UnauthorizedError" \/ Includes(e.message, "unauthorized")
    THEN ErrorResponse(401, "Unauthorized",
                       "Authentication required or invalid credentials")
    ELSE IF e.name = "ForbiddenError" \/ Includes(e.message, "forbidden")
    THEN ErrorResponse(403, "Forbidden", "Access denied")
    ELSE IF e.name = "NotFoundError" \/ Includes(e.message, "not found")
    THEN ErrorResponse(404, "Not Found", e.message)
    ELSE IF e.name = "RateLimitError" \/ Includes(e.message, "rate limit")
    THEN ErrorResponse(429, "Too Many Requests", "Rate limit exceeded")
    ELSE IF e.status >= 400 /\ e.status < 500
    THEN ErrorResponse(e.status, e.name, e.message)
    ELSE IF e.code = "LIMIT_FILE_SIZE"
    THEN ErrorResponse(413, "File Too Large",
                       "Uploaded file exceeds maximum size limit")
    ELSE IF e.code = "ENOENT"
    THEN ErrorResponse(404, "File Not Found", "Requested file does not exist")
    ELSE IF e.code = "ECONNREFUSED"
    THEN ErrorResponse(503, "Service Unavailable", "External service connection failed")
    ELSE ErrorResponse(500, "Internal Server Error", "An unexpected error occurred")

\* errorHandler(error, req, res, next): nothing is written once a response
\* has been sent
errorHandler(st, e) ==
    IF st.responses # <<>>
    THEN [st EXCEPT !.pc = "done"]
    ELSE [st EXCEPT !.responses = Append(@, errorHandlerResponse(e)), !.pc = "done"]

-----------------------------------------------------------------------------
(* routes/hackrx.js: multer configuration *)

MaxFileSize == 20 * 1024 * 1024

NoPart == [present |-> FALSE, mimetype |-> "", size |-> 0, originalname |-> ""]
Part(mimetype, size, name) ==
    [present |-> TRUE, mimetype |-> mimetype, size |-> size, originalname |-> name]

NoFile == [present |-> FALSE, path |-> ""]
StagedFile(path) == [present |-> TRUE, path |-> path]

\* storage.filename: a fresh name per upload
PathOf(r) == "uploads/" \o IndexText(r) \o ".pdf"

\* fileFilter and limits.fileSize of upload.single('document'): the error
\* passed to next(), or none
FileFilterError ==
    [Err("Error", "Only PDF files are allowed") EXCEPT !.status = 400]
FileSizeError ==
    [Err("MulterError", "File too large") EXCEPT !.code = "LIMIT_FILE_SIZE"]

multerVerdict(part) ==
    IF ~part.present THEN "nofile"
    ELSE IF part.mimetype # "application/pdf" THEN "filtered"
    ELSE IF part.size > MaxFileSize THEN "toolarge"
    ELSE "staged"

-----------------------------------------------------------------------------
(* The state of one request, as one record, and the steps of the code as   *)
(* functions from record to record.                                        *)

\* a variant of Cur in which documentContent is kept in the service
\* singleton: every request reads the content of the first one
CurSharedContent(r) ==
    [pc |-> pc[r], file |-> file[r], content |-> content[1],
     answers |-> answers[r], idx |-> idx[r], calls |-> calls[r],
     extraction |-> extraction[r], outcomes |-> outcomes[r], raised |-> raised[r],
     responses |-> responses[r], trace |-> trace[r], disk |-> disk]

Cur(r) ==
    [pc |-> pc[r], file |-> file[r], content |-> content[r],
     answers |-> answers[r], idx |-> idx[r], calls |-> calls[r],
     extraction |-> extraction[r], outcomes |-> outcomes[r], raised |-> raised[r],
     responses |-> responses[r], trace |-> trace[r], disk |-> disk]

Commit(r, st) ==
    /\ pc' = [pc EXCEPT ![r] = st.pc]
    /\ file' = [file EXCEPT ![r] = st.file]
    /\ content' = [content EXCEPT ![r] = st.content]
    /\ answers' = [answers EXCEPT ![r] = st.answers]
    /\ idx' = [idx EXCEPT ![r] = st.idx]
    /\ calls' = [calls EXCEPT ![r] = st.calls]
    /\ extraction' = [extraction EXCEPT ![r] = st.extraction]
    /\ outcomes' = [outcomes EXCEPT ![r] = st.outcomes]
    /\ raised' = [raised EXCEPT ![r] = st.raised]
    /\ responses' = [responses EXCEPT ![r] = st.responses]
    /\ trace' = [trace EXCEPT ![r] = st.trace]
    /\ disk' = st.disk
    /\ UNCHANGED <<request, probe, result>>

Step(st, name) == [st EXCEPT !.trace = Append(@, name)]

\* the download (or the read) and the parse of an extraction settled with o
Settled(st, o) == [st EXCEPT !.outcomes = Append(@, o)]

\* res.status(..).json(..) followed by the end of the handler
Send(st, resp) == [st EXCEPT !.responses = Append(@, resp), !.pc = "done"]

-----------------------------------------------------------------------------
(* routes/hackrx.js: the catch blocks of the two routes *)

runCatchResponse(e) ==
    IF e.name = "DocumentProcessingError"
    THEN ErrorResponse(422, "Document Processing Error", e.message)
    ELSE IF e.name = "GeminiAPIError"
    THEN ErrorResponse(502, "AI Service Error", "Failed to process questions with AI service")
    ELSE ErrorResponse(500, "Internal Server Error", "Failed to process RAG request")

uploadCatchResponse(e) ==
    ErrorResponse(500, "Internal Server Error", "Failed to process uploaded file")

\* the questions handed to the orchestrator: req.body.questions, or the
\* JSON.parse of the questions field of the upload
QuestionsOf(req) ==
    IF req.route = "run" THEN req.body.questions.a ELSE req.field.value.a

-----------------------------------------------------------------------------
(* services/ragService.js and the loop of geminiService.processQuestions *)

Call(question, documentContent) ==
    [question |-> question, context |-> documentContent,
     prompt |-> BuildPrompt(question, documentContent),
     status |-> "pending", served |-> FALSE, text |-> ""]

\* the orchestrator returned the answers to the route
answersReturned(st, req) ==
    IF req.route = "run"
    THEN Send(st, Response(200, "", "", <<>>, st.answers))
    ELSE [Step(st, "unlink") EXCEPT !.pc = "unlinking"]

\* the catch block of processDocumentAndQuestions / processFileAndQuestions,
\* and then the catch block of the route
orchestratorThrew(st, req) ==
    LET customError ==
            Err("DocumentProcessingError",
                IF req.route = "run" THEN "Failed to process document and questions"
                ELSE "Failed to process file and questions")
        st1 == [st EXCEPT !.raised = Append(@, customError)]
    IN  IF req.route = "run" THEN Send(st1, runCatchResponse(customError))
        ELSE IF st1.file.present
        THEN [Step(st1, "unlink") EXCEPT !.pc = "unlinking"]
        ELSE Send(st1, uploadCatchResponse(customError))

\* a variant of nextQuestion that issues the calls of all the questions at
\* once, as Promise.all over the questions would
nextQuestionAllAtOnce(st, req) ==
    IF st.idx < Len(QuestionsOf(req))
    THEN IF st.calls = <<>>
         THEN [Step(st, "generate") EXCEPT
                 !.calls = [k \in 1..Len(QuestionsOf(req)) |->
                               Call(QuestionsOf(req)[k], st.content)],
                 !.pc = "generating"]
         ELSE [st EXCEPT !.pc = "generating"]
    ELSE answersReturned(st, req)

\* a variant of nextQuestion that hands the first characters of the
\* document to the call instead of the whole text
nextQuestionTruncatedContext(st, req) ==
    IF st.idx < Len(QuestionsOf(req))
    THEN [Step(st, "generate") EXCEPT
            !.calls = Append(@, Call(QuestionsOf(req)[st.idx + 1],
                                     IF Len(st.content) > 10
                                     THEN SubSeq(st.content, 1, 10)
                                     ELSE st.content)),
            !.pc = "generating"]
    ELSE answersReturned(st, req)

\* the head of the for loop: the call for questions[i], or the return
nextQuestion(st, req) ==
    IF st.idx < Len(QuestionsOf(req))
    THEN [Step(st, "generate") EXCEPT
            !.calls = Append(@, Call(QuestionsOf(req)[st.idx + 1], st.content)),
            !.pc = "generating"]
    ELSE answersReturned(st, req)

\* a variant of questionSettled without the try/catch of the loop: a failed
\* question reaches the catch block of the orchestrator
questionSettledNoIsolation(st, req, o) ==
    LET n == Len(st.calls)
        q == st.calls[n].question
        g == generateAnswer(q, o)
        st1 == [Step(st, "generated") EXCEPT
                  !.calls[n].status = IF g.ok THEN "returned" ELSE "failed",
                  !.calls[n].served = ~o.threw,
                  !.calls[n].text = o.text]
    IN  IF g.ok
        THEN nextQuestion([st1 EXCEPT !.answers = Append(@, g.text), !.idx = @ + 1], req)
        ELSE orchestratorThrew(st1, req)

\* a variant of questionSettled that calls the service a second time for a
\* question whose first call failed
questionSettledRetryOnce(st, req, o) ==
    LET n == Len(st.calls)
        q == st.calls[n].question
        g == generateAnswer(q, o)
        st1 == [Step(st, "generated") EXCEPT
                  !.calls[n].status = IF g.ok THEN "returned" ELSE "failed",
                  !.calls[n].served = ~o.threw,
                  !.calls[n].text = o.text]
    IN  IF ~g.ok /\ n = st.idx + 1
        THEN [Step(st1, "generate") EXCEPT !.calls = Append(@, Call(q, st.content))]
        ELSE nextQuestion([st1 EXCEPT !.answers = pushAnswer(@, q, g),
                                      !.idx = @ + 1], req)

\* a variant of questionSettled in which the failure of a call is not
\* caught and not passed on: the request is left waiting for ever
questionSettledUnhandled(st, req, o) ==
    LET n == Len(st.calls)
        q == st.calls[n].question
        g == generateAnswer(q, o)
        st1 == [Step(st, "generated") EXCEPT
                  !.calls[n].status = IF g.ok THEN "returned" ELSE "failed",
                  !.calls[n].served = ~o.threw,
                  !.calls[n].text = o.text]
    IN  IF g.ok
        THEN nextQuestion([st1 EXCEPT !.answers = Append(@, g.text), !.idx = @ + 1], req)
        ELSE [st1 EXCEPT !.pc = "waiting"]

\* the body of the for loop once the service call of generateAnswer has
\* settled with o
questionSettled(st, req, o) ==
    LET n == Len(st.calls)
        q == st.calls[n].question
        g == generateAnswer(q, o)
        st1 == [Step(st, "generated") EXCEPT
                  !.calls[n].status = IF g.ok THEN "returned" ELSE "failed",
                  !.calls[n].served = ~o.threw,
                  !.calls[n].text = o.text,
                  !.answers = pushAnswer(@, q, g),
                  !.idx = @ + 1]
    IN  nextQuestion(st1, req)

\* a variant of urlExtractionSettled without the inner try/catch: a failed
\* extraction reaches the outer catch
urlExtractionSettledFatal(st, req, x) ==
    LET st1 == [Step(st, "extracted") EXCEPT !.extraction = Append(@, x)]
    IN  IF x.ok THEN nextQuestion([st1 EXCEPT !.content = x.text], req)
        ELSE orchestratorThrew(st1, req)

\* processDocumentAndQuestions once extractTextFromUrl has settled with x
urlExtractionSettled(st, req, x) ==
    LET st1 == [Step(st, "extracted") EXCEPT
                  !.extraction = Append(@, x),
                  !.content = IF x.ok THEN x.text ELSE ""]
    IN  nextQuestion(st1, req)

\* processFileAndQuestions once extractTextFromFile has settled with x
fileExtractionSettled(st, req, x) ==
    LET st1 == [Step(st, "extracted") EXCEPT !.extraction = Append(@, x)]
    IN  IF x.ok THEN nextQuestion([st1 EXCEPT !.content = x.text], req)
        ELSE orchestratorThrew(st1, req)

-----------------------------------------------------------------------------
(* routes/hackrx.js: the handlers up to their first await *)

\* a variant of authStep whose 401 branches lack the return: the response
\* is written and the chain goes on
authStepFallsThrough(st, req) ==
    LET a == authMiddleware(req.header)
        st1 == Step(st, "auth")
        onward == IF req.route = "upload" THEN "multer" ELSE "handler"
    IN  IF a.next
        THEN [st1 EXCEPT !.pc = onward]
        ELSE [Send(st1, a.response) EXCEPT !.pc = onward]

\* authMiddleware mounted first on both routes; next() leads to
\* upload.single on /hackrx/upload and to the handler on /hackrx/run
authStep(st, req) ==
    LET a == authMiddleware(req.header)
        st1 == Step(st, "auth")
    IN  IF a.next
        THEN [st1 EXCEPT !.pc = IF req.route = "upload" THEN "multer" ELSE "handler"]
        ELSE Send(st1, a.response)

\* a variant of multerStep that hands the error to errorHandler and calls
\* the route handler all the same
multerStepErrorFallsThrough(st, req, path) ==
    LET verdict == multerVerdict(req.part)
        st1 == Step(st, "multer")
    IN  CASE verdict = "nofile" -> [st1 EXCEPT !.pc = "handler"]
          [] verdict = "filtered" -> [errorHandler(st1, FileFilterError) EXCEPT !.pc = "handler"]
          [] verdict = "toolarge" -> [errorHandler(st1, FileSizeError) EXCEPT !.pc = "handler"]
          [] OTHER -> [st1 EXCEPT !.pc = "handler",
                                  !.file = StagedFile(path),
                                  !.disk = @ \cup {path}]

\* upload.single('document'); an error goes to the global errorHandler
multerStep(st, req, path) ==
    LET verdict == multerVerdict(req.part)
        st1 == Step(st, "multer")
    IN  CASE verdict = "nofile" -> [st1 EXCEPT !.pc = "handler"]
          [] verdict = "filtered" -> errorHandler(st1, FileFilterError)
          [] verdict = "toolarge" -> errorHandler(st1, FileSizeError)
          [] OTHER -> [st1 EXCEPT !.pc = "handler",
                                  !.file = StagedFile(path),
                                  !.disk = @ \cup {path}]

\* a variant of runHandler whose 400 leaves the violations out
runHandlerNoDetails(st, req) ==
    LET st1 == Step(st, "validate")
        v == validateRequest(req.body)
    IN  IF ~v.isValid
        THEN Send(st1, ErrorResponse(400, "Validation Error",
                                     "Request body validation failed"))
        ELSE [Step(st1, "extract") EXCEPT !.pc = "extracting"]

\* POST /hackrx/run up to the call of extractTextFromUrl
runHandler(st, req) ==
    LET st1 == Step(st, "validate")
        v == validateRequest(req.body)
        questions == req.body.questions
    IN  IF ~v.isValid
        THEN Send(st1, Response(400, "Validation Error",
                                "Request body validation failed", v.errors, <<>>))
        ELSE IF questions.t # "array" \/ Len(questions.a) = 0
        THEN Send(st1, ErrorResponse(400, "Validation Error",
                                     "Questions must be a non-empty array"))
        ELSE IF Len(questions.a) > MaxQuestions
        THEN Send(st1, ErrorResponse(400, "Validation Error",
                                     "Maximum 10 questions allowed per request"))
        ELSE [Step(st1, "extract") EXCEPT !.pc = "extracting"]

\* a variant of uploadHandler that starts the generation without waiting
\* for the extraction
uploadHandlerGeneratesFirst(st, req) ==
    LET st1 == Step(st, "handler")
    IN  IF ~st.file.present
        THEN Send(st1, ErrorResponse(400, "No file provided", "Please upload a PDF file"))
        ELSE IF ~req.field.wellFormed
        THEN Send(st1, ErrorResponse(400, "Invalid questions format",
                                     "Questions must be a valid JSON array"))
        ELSE IF req.field.value.t # "array" \/ Len(req.field.value.a) = 0
        THEN Send(st1, ErrorResponse(400, "Validation Error",
                                     "Questions must be a non-empty array"))
        ELSE nextQuestion(Step(st1, "extract"), req)

\* POST /hackrx/upload up to the call of extractTextFromFile
uploadHandler(st, req) ==
    LET st1 == Step(st, "handler")
    IN  IF ~st.file.present
        THEN Send(st1, ErrorResponse(400, "No file provided", "Please upload a PDF file"))
        ELSE IF ~req.field.wellFormed
        THEN Send(st1, ErrorResponse(400, "Invalid questions format",
                                     "Questions must be a valid JSON array"))
        ELSE IF req.field.value.t # "array" \/ Len(req.field.value.a) = 0
        THEN Send(st1, ErrorResponse(400, "Validation Error",
                                     "Questions must be a non-empty array"))
        ELSE [Step(st1, "extract") EXCEPT !.pc = "extracting"]

\* a variant of unlinkSettled in which a failed unlink after a successful
\* run is not caught: the catch block of the route answers 500
unlinkSettledFatal(st, req, ok) ==
    LET st1 == [Step(st, "unlinked") EXCEPT
                  !.disk = IF ok THEN @ \ {st.file.path} ELSE @]
    IN  IF st.raised = <<>> /\ ok
        THEN Send(st1, Response(200, "", "", <<>>, st1.answers))
        ELSE Send(st1, ErrorResponse(500, "Internal Server Error",
                                     "Failed to process uploaded file"))

\* POST /hackrx/upload once fs.unlink has settled, in the try (the answers
\* follow) or in the catch (the 500 follows); a failed unlink is only logged
unlinkSettled(st, req, ok) ==
    LET st1 == [Step(st, "unlinked") EXCEPT
                  !.disk = IF ok THEN @ \ {st.file.path} ELSE @]
    IN  IF st.raised = <<>>
        THEN Send(st1, Response(200, "", "", <<>>, st1.answers))
        ELSE Send(st1, uploadCatchResponse(st.raised[Len(st.raised)]))

-----------------------------------------------------------------------------
(* What clients send and what the collaborators answer *)

ListsOver(S, n) == UNION {[1..k -> S] : k \in 0..n}
Uniform(v, n) == [k \in 1..n |-> v]

Headers ==
    {NoHeader, Header(""), Header("s3cret"), Header("Basic s3cret"),
     Header("bearer s3cret"), Header("Bearer "), Header("Bearer wrong"),
     Header("Bearer s3cretX"), Header("Bearer s3cret")}

Q1 == JStr("What is the notice period?")
Q2 == JStr("What is the limit?")
QLen4 == JStr("abcd")
QLen5 == JStr("abcde")
QLen1000 == JStr(Rep("x", MaxQuestionLen))
QLen1001 == JStr(Rep("x", MaxQuestionLen + 1))
QPadded == JStr("    a")
QNumber == JNum("7")

DocumentValues ==
    {JStr("http://host/doc.pdf"), JStr("https://host/doc.pdf"),
     JStr("ftp://host/doc.pdf"), JStr("/doc.pdf"), JStr(""), JNum("42"), JUndefined}

QuestionLists ==
    ListsOver({Q1, Q2, QLen4, QNumber}, MaxListLen)
    \cup {<<QLen5>>, <<QLen1000>>, <<QLen1001>>, <<QPadded>>, <<Q1, QLen1001>>}
    \cup {Uniform(QLen5, MaxQuestions), Uniform(QLen5, MaxQuestions + 1)}

QuestionsValues ==
    {JArr(l) : l \in QuestionLists} \cup {JUndefined, JStr("What is the limit?"), JObj}

RunBodies ==
    [documents : DocumentValues, questions : QuestionsValues, extra : BOOLEAN]

NoBody == [documents |-> JUndefined, questions |-> JUndefined, extra |-> FALSE]

Parts ==
    {NoPart, Part("application/pdf", 1024, "policy.pdf"),
     Part("application/pdf", MaxFileSize, "policy.pdf"),
     Part("application/pdf", MaxFileSize + 1, "policy.pdf"),
     Part("text/plain", 1024, "notes.txt")}

\* the questions field of the multipart body: its JSON text, given by what
\* JSON.parse makes of it
Malformed == [wellFormed |-> FALSE, value |-> JUndefined]
JsonText(v) == [wellFormed |-> TRUE, value |-> v]

Fields ==
    {Malformed, JsonText(JObj), JsonText(JStr("What is the limit?")),
     JsonText(JArr(<<>>)), JsonText(JArr(<<Q1>>)), JsonText(JArr(<<Q1, Q2>>)),
     JsonText(JArr(<<QNumber>>)), JsonText(JArr(<<QLen4, Q1>>)),
     JsonText(JArr(<<QLen1001>>)), JsonText(JArr(Uniform(QLen5, MaxQuestions + 1)))}

RunRequests ==
    {[route |-> "run", header |-> h, body |-> b, part |-> NoPart, field |-> Malformed] :
        h \in Headers, b \in RunBodies}

UploadRequests ==
    {[route |-> "upload", header |-> h, body |-> NoBody, part |-> p, field |-> f] :
        h \in Headers, p \in Parts, f \in Fields}

NoRequest ==
    [route |-> "none", header |-> NoHeader, body |-> NoBody, part |-> NoPart,
     field |-> Malformed]

DocText == "Notice period is 30 days."

HttpError(statusLine) ==
    [Err("AxiosError", "Request failed") EXCEPT !.response = statusLine,
                                                  !.code = "ERR_BAD_REQUEST"]
NetError(code) == [Err("Error", "connect " \o code) EXCEPT !.code = code]
ParseError == Err("Error", "Invalid PDF structure")

\* axios and pdf-parse
DownloadOutcomes ==
    {Parsed(DocText), Parsed(""), Parsed(" \n "), Threw(ParseError),
     Threw(HttpError("404 Not Found")), Threw(NetError("ENOTFOUND")),
     Threw(NetError("ETIMEDOUT")), Threw(NetError("ECONNRESET")),
     Threw([HttpError("502 Bad Gateway") EXCEPT !.code = "ENOTFOUND"]),
     Threw([HttpError("504 Gateway Timeout") EXCEPT !.code = "ETIMEDOUT"])}

\* fs.readFile and pdf-parse
FileOutcomes ==
    {Parsed(DocText), Parsed(""), Parsed(" \n "), Threw(ParseError),
     Threw([Err("Error", "EACCES: permission denied") EXCEPT !.code = "EACCES"])}

\* model.generateContent(prompt) and response.text()
ReplyTo(prompt) == "Reply to: " \o prompt
ServiceOutcomes(prompt) ==
    {ServiceFailed("503 Service Unavailable"), ServiceReturned(ReplyTo(prompt))}

-----------------------------------------------------------------------------
(* utils/validator.js: validateUploadedFile.  The file object is the one   *)
(* multer makes: mimetype, size, originalname; null when there is none.    *)

EndsWith(s, suffix) ==
    Len(s) >= Len(suffix) /\ SubSeq(s, Len(s) - Len(suffix) + 1, Len(s)) = suffix

LowerOf(c) ==
    CASE c = "A" -> "a" [] c = "B" -> "b" [] c = "C" -> "c" [] c = "D" -> "d"
      [] c = "E" -> "e" [] c = "F" -> "f" [] c = "G" -> "g" [] c = "H" -> "h"
      [] c = "I" -> "i" [] c = "J" -> "j" [] c = "K" -> "k" [] c = "L" -> "l"
      [] c = "M" -> "m" [] c = "N" -> "n" [] c = "O" -> "o" [] c = "P" -> "p"
      [] c = "Q" -> "q" [] c = "R" -> "r" [] c = "S" -> "s" [] c = "T" -> "t"
      [] c = "U" -> "u" [] c = "V" -> "v" [] c = "W" -> "w" [] c = "X" -> "x"
      [] c = "Y" -> "y" [] c = "Z" -> "z" [] OTHER -> c

RECURSIVE ToLowerCase(_)
\* String.prototype.toLowerCase
ToLowerCase(s) ==
    IF s = "" THEN ""
    ELSE LowerOf(SubSeq(s, 1, 1)) \o ToLowerCase(SubSeq(s, 2, Len(s)))

DigitText(d) ==
    CASE d = 0 -> "0" [] d = 1 -> "1" [] d = 2 -> "2" [] d = 3 -> "3" [] d = 4 -> "4"
      [] d = 5 -> "5" [] d = 6 -> "6" [] d = 7 -> "7" [] d = 8 -> "8" [] OTHER -> "9"

RECURSIVE NatText(_)
\* the decimal digits of a natural number
NatText(n) == IF n < 10 THEN DigitText(n) ELSE NatText(n \div 10) \o DigitText(n % 10)

\* (size / 1024 / 1024).toFixed(2): megabytes rounded to hundredths
MegabytesText(size) ==
    LET hundredths == (size * 100 + 512 * 1024) \div (1024 * 1024)
    IN  NatText(hundredths \div 100) \o "."
        \o DigitText((hundredths \div 10) % 10) \o DigitText(hundredths % 10)

FileVerdict(isValid, error, details) ==
    [isValid |-> isValid, error |-> error, details |-> details]

\* a variant of validateUploadedFile that refuses a file of exactly 20 MiB
validateUploadedFileMaxExclusive(f) ==
    IF ~f.present
    THEN FileVerdict(FALSE, "No file uploaded", "A PDF file is required")
    ELSE IF f.mimetype # "application/pdf"
    THEN FileVerdict(FALSE, "Invalid file type", "Expected PDF file, got " \o f.mimetype)
    ELSE IF f.size >= MaxFileSize
    THEN FileVerdict(FALSE, "File too large",
                     "File size " \o MegabytesText(f.size) \o "MB exceeds 20MB limit")
    ELSE IF f.originalname = "" \/ ~EndsWith(ToLowerCase(f.originalname), ".pdf")
    THEN FileVerdict(FALSE, "Invalid filename", "File must have .pdf extension")
    ELSE FileVerdict(TRUE, "", "")

validateUploadedFile(f) ==
    IF ~f.present
    THEN FileVerdict(FALSE, "No file uploaded", "A PDF file is required")
    ELSE IF f.mimetype # "application/pdf"
    THEN FileVerdict(FALSE, "Invalid file type", "Expected PDF file, got " \o f.mimetype)
    ELSE IF f.size > MaxFileSize
    THEN FileVerdict(FALSE, "File too large",
                     "File size " \o MegabytesText(f.size) \o "MB exceeds 20MB limit")
    ELSE IF f.originalname = "" \/ ~EndsWith(ToLowerCase(f.originalname), ".pdf")
    THEN FileVerdict(FALSE, "Invalid filename", "File must have .pdf extension")
    ELSE FileVerdict(TRUE, "", "")

-----------------------------------------------------------------------------
(* utils/validator.js: sanitizeString.  A string is the sequence of its    *)
(* character codes.                                                        *)

\* the code units String.prototype.trim removes, below 128:
\* tab, line feed, vertical tab, form feed, carriage return, space
TrimmedCodes == {9, 10, 11, 12, 13, 32}

\* /[\x00-\x08\x0B\x0C\x0E-\x1F\x7F]/
ControlCodes == (0..8) \cup {11, 12} \cup (14..31) \cup {127}

DefaultMaxLength == 1000

RECURSIVE TrimCodesLeft(_)
TrimCodesLeft(s) ==
    IF s # <<>> /\ Head(s) \in TrimmedCodes THEN TrimCodesLeft(Tail(s)) ELSE s

RECURSIVE TrimCodesRight(_)
TrimCodesRight(s) ==
    IF s # <<>> /\ s[Len(s)] \in TrimmedCodes
    THEN TrimCodesRight(SubSeq(s, 1, Len(s) - 1))
    ELSE s

TrimCodes(s) == TrimCodesRight(TrimCodesLeft(s))

\* String.prototype.replace(/<class>/g, '')
Without(s, codes) == SelectSeq(s, LAMBDA c : c \notin codes)

JsString(chars) == [isString |-> TRUE, chars |-> chars]
NotAString == [isString |-> FALSE, chars |-> <<>>]

\* options.maxLength of 0 stands for an option not given: both are falsy
Options(maxLength, allowControlChars) ==
    [maxLength |-> maxLength, allowControlChars |-> allowControlChars]

sanitizeString(input, options) ==
    IF ~input.isString THEN <<>>
    ELSE LET trimmed == TrimCodes(input.chars)
             noNull == Without(trimmed, {0})
             maxLength == IF options.maxLength # 0 THEN options.maxLength
                          ELSE DefaultMaxLength
             limited == IF Len(noNull) > maxLength THEN SubSeq(noNull, 1, maxLength)
                        ELSE noNull
         IN  IF ~options.allowControlChars THEN Without(limited, ControlCodes)
             ELSE limited

-----------------------------------------------------------------------------
(* config/config.js: getAllConfig and logConfiguration.  env is            *)
(* process.env; the log is the safeConfig object that is serialised.       *)

Truthy(v) == v.t # "undefined" /\ v.s # ""

RECURSIVE StripLeadingZeros(_)
StripLeadingZeros(s) ==
    IF Len(s) > 1 /\ SubSeq(s, 1, 1) = "0" THEN StripLeadingZeros(SubSeq(s, 2, Len(s)))
    ELSE s

\* parseInt of a string of digits, as JSON.stringify prints the number
ParseIntText(s) == StripLeadingZeros(s)

DefaultPort == "8000"

\* process.env[key] || DEFAULT_CONFIG[key], for PORT
getConfigPort(env) == IF Truthy(env.PORT) THEN env.PORT.s ELSE DefaultPort

getAllConfig(env) ==
    [port |-> ParseIntText(getConfigPort(env)),
     geminiApiKey |-> env.GEMINI_API_KEY,
     authBearerToken |-> env.AUTH_BEARER_TOKEN,
     uploadsDir |-> "./uploads",
     apiSpec |-> [baseUrl |-> "http://localhost:" \o getConfigPort(env) \o "/api/v1",
                  endpoint |-> "/hackrx/run",
                  authentication |-> "Bearer " \o ToText(env.AUTH_BEARER_TOKEN)]]

Redacted(v) == IF Truthy(v) THEN JStr("***REDACTED***") ELSE JStr("NOT_SET")

\* the object logConfiguration hands to JSON.stringify and the logger
logConfiguration(env) ==
    LET config == getAllConfig(env)
    IN  [config EXCEPT !.geminiApiKey = Redacted(config.geminiApiKey),
                       !.authBearerToken = Redacted(config.authBearerToken)]

-----------------------------------------------------------------------------
(* The arguments the utility functions are called with *)

\* longest string handed to sanitizeString
MaxProbeLen == 3

\* NUL, a control character, tab, form feed, space, the letter a
CodeAlphabet == {0, 1, 9, 12, 32, 97}

ProbeStrings == UNION {[1..k -> CodeAlphabet] : k \in 0..MaxProbeLen}

FileObjects ==
    {NoPart} \cup
    {Part(m, s, n) :
        m \in {"application/pdf", "application/PDF", "text/plain"},
        s \in {1024, MaxFileSize, MaxFileSize + 1},
        n \in {"policy.pdf", "REPORT.PDF", "notes.txt", "pdf", ""}}

\* two starts of the process, each with its own environment
Boots == {1, 2}

NoEnv == [GEMINI_API_KEY |-> JUndefined, AUTH_BEARER_TOKEN |-> JUndefined,
          PORT |-> JUndefined]

Envs ==
    [GEMINI_API_KEY : {JUndefined, JStr("key-A"), JStr("key-B")},
     AUTH_BEARER_TOKEN : {JUndefined, JStr("s3cret"), JStr("t0ken")},
     PORT : {JUndefined, JStr("9000"), JStr("0900")}]

NoProbe ==
    [kind |-> "none", file |-> NoPart, input |-> NotAString,
     options |-> Options(0, FALSE), env |-> [b \in Boots |-> NoEnv]]

NoResult == [verdicts |-> <<>>, passes |-> <<>>, logs |-> [b \in Boots |-> <<>>]]

FileProbes == {[NoProbe EXCEPT !.kind = "file", !.file = f] : f \in FileObjects}

StringProbes ==
    {[NoProbe EXCEPT !.kind = "string", !.input = i, !.options = o] :
        i \in {JsString(c) : c \in ProbeStrings} \cup {NotAString},
        o \in {Options(m, a) : m \in {0, 2}, a \in BOOLEAN}}

ConfigProbes ==
    {[NoProbe EXCEPT !.kind = "config", !.env = e] : e \in [Boots -> Envs]}

-----------------------------------------------------------------------------
(* The state machine *)

Init ==
    /\ request \in {f \in [Reqs -> RunRequests \cup UploadRequests \cup {NoRequest}] :
                       f[1] # NoRequest /\ f[2] = NoRequest}
    /\ pc = [r \in Reqs |-> IF request[r] = NoRequest THEN "absent" ELSE "auth"]
    /\ file = [r \in Reqs |-> NoFile]
    /\ content = [r \in Reqs |-> ""]
    /\ answers = [r \in Reqs |-> <<>>]
    /\ idx = [r \in Reqs |-> 0]
    /\ calls = [r \in Reqs |-> <<>>]
    /\ extraction = [r \in Reqs |-> <<>>]
    /\ outcomes = [r \in Reqs |-> <<>>]
    /\ raised = [r \in Reqs |-> <<>>]
    /\ responses = [r \in Reqs |-> <<>>]
    /\ trace = [r \in Reqs |-> <<>>]
    /\ disk = {}
    /\ probe = NoProbe
    /\ result = NoResult

Auth(r) ==
    /\ pc[r] = "auth"
    /\ Commit(r, authStep(Cur(r), request[r]))

Multer(r) ==
    /\ pc[r] = "multer"
    /\ Commit(r, multerStep(Cur(r), request[r], PathOf(r)))

RunHandler(r) ==
    /\ pc[r] = "handler"
    /\ request[r].route = "run"
    /\ Commit(r, runHandler(Cur(r), request[r]))

UploadHandler(r) ==
    /\ pc[r] = "handler"
    /\ request[r].route = "upload"
    /\ Commit(r, uploadHandler(Cur(r), request[r]))

UrlExtractionReturn(r) ==
    /\ pc[r] = "extracting"
    /\ request[r].route = "run"
    /\ \E o \in DownloadOutcomes :
          Commit(r, urlExtractionSettled(Settled(Cur(r), o), request[r],
                                         extractTextFromUrl(o)))

FileExtractionReturn(r) ==
    /\ pc[r] = "extracting"
    /\ request[r].route = "upload"
    /\ \E o \in FileOutcomes :
          Commit(r, fileExtractionSettled(Settled(Cur(r), o), request[r],
                        extractTextFromFile(file[r].path \in disk, o)))

GenerationReturn(r) ==
    /\ pc[r] = "generating"
    /\ LET c == calls[r][Len(calls[r])]
       IN  \E o \in ServiceOutcomes(c.prompt) :
              Commit(r, questionSettled(Cur(r), request[r], o))

UnlinkReturn(r) ==
    /\ pc[r] = "unlinking"
    /\ \E ok \in BOOLEAN : Commit(r, unlinkSettled(Cur(r), request[r], ok))

Next ==
    \E r \in Reqs :
        \/ Auth(r)
        \/ Multer(r)
        \/ RunHandler(r)
        \/ UploadHandler(r)
        \/ UrlExtractionReturn(r)
        \/ FileExtractionReturn(r)
        \/ GenerationReturn(r)
        \/ UnlinkReturn(r)

Spec == Init /\ [][Next]_vars

-----------------------------------------------------------------------------
(* Two requests served at the same time: the event loop runs the code      *)
(* between two awaits of one request, then of the other, in any order.     *)

GoodHeader == Header("Bearer " \o ExpectedToken)

RunOf(documents, questions, extra) ==
    [route |-> "run", header |-> GoodHeader,
     body |-> [documents |-> documents, questions |-> JArr(questions), extra |-> extra],
     part |-> NoPart, field |-> Malformed]

UploadOf(questions) ==
    [route |-> "upload", header |-> GoodHeader, body |-> NoBody,
     part |-> Part("application/pdf", 1024, "policy.pdf"),
     field |-> JsonText(JArr(questions))]

\* eleven questions, the third of them too short
ElevenWithShort == [Uniform(QLen5, MaxQuestions + 1) EXCEPT ![3] = QLen4]

ConcurrentRequests ==
    {RunOf(JStr("http://host/doc.pdf"), <<Q1, Q2>>, FALSE),
     RunOf(JStr("https://host/doc.pdf"), <<Q2>>, FALSE),
     RunOf(JStr("ftp://host/doc.pdf"), ElevenWithShort, TRUE),
     RunOf(JStr("http://host/doc.pdf"), <<QLen4, QNumber>>, FALSE),
     UploadOf(<<Q2, Q1>>),
     UploadOf(<<Q1>>)}

InitConcurrent ==
    /\ request \in [Reqs -> ConcurrentRequests]
    /\ pc = [r \in Reqs |-> "auth"]
    /\ file = [r \in Reqs |-> NoFile]
    /\ content = [r \in Reqs |-> ""]
    /\ answers = [r \in Reqs |-> <<>>]
    /\ idx = [r \in Reqs |-> 0]
    /\ calls = [r \in Reqs |-> <<>>]
    /\ extraction = [r \in Reqs |-> <<>>]
    /\ outcomes = [r \in Reqs |-> <<>>]
    /\ raised = [r \in Reqs |-> <<>>]
    /\ responses = [r \in Reqs |-> <<>>]
    /\ trace = [r \in Reqs |-> <<>>]
    /\ disk = {}
    /\ probe = NoProbe
    /\ result = NoResult

SpecConcurrent == InitConcurrent /\ [][Next]_vars

-----------------------------------------------------------------------------
(* Progress: the event loop runs every continuation that is ready, and     *)
(* every collaborator call (download and parse, generation, unlink)        *)
(* settles, with a result or with an error.                                *)

Fairness ==
    \A r \in Reqs :
        /\ WF_vars(Auth(r))
        /\ WF_vars(Multer(r))
        /\ WF_vars(RunHandler(r))
        /\ WF_vars(UploadHandler(r))
        /\ WF_vars(UrlExtractionReturn(r))
        /\ WF_vars(FileExtractionReturn(r))
        /\ WF_vars(GenerationReturn(r))
        /\ WF_vars(UnlinkReturn(r))

\* one request at a time, of every kind the routes tell apart
LiveRequests ==
    ConcurrentRequests
    \cup {RunOf(JStr("http://host/doc.pdf"), <<Q1, Q2, QLen5>>, FALSE),
          UploadOf(<<QNumber, Q1>>),
          [UploadOf(<<Q1>>) EXCEPT !.field = Malformed],
          [UploadOf(<<Q1>>) EXCEPT !.part = Part("text/plain", 1024, "notes.txt")],
          [UploadOf(<<Q1>>) EXCEPT !.part = NoPart],
          [UploadOf(<<Q1>>) EXCEPT !.header = Header("Bearer wrong")],
          [RunOf(JStr("http://host/doc.pdf"), <<Q1>>, FALSE) EXCEPT !.header = NoHeader]}

InitLive ==
    /\ request \in {f \in [Reqs -> LiveRequests \cup {NoRequest}] :
                       f[1] # NoRequest /\ f[2] = NoRequest}
    /\ pc = [r \in Reqs |-> IF request[r] = NoRequest THEN "absent" ELSE "auth"]
    /\ file = [r \in Reqs |-> NoFile]
    /\ content = [r \in Reqs |-> ""]
    /\ answers = [r \in Reqs |-> <<>>]
    /\ idx = [r \in Reqs |-> 0]
    /\ calls = [r \in Reqs |-> <<>>]
    /\ extraction = [r \in Reqs |-> <<>>]
    /\ outcomes = [r \in Reqs |-> <<>>]
    /\ raised = [r \in Reqs |-> <<>>]
    /\ responses = [r \in Reqs |-> <<>>]
    /\ trace = [r \in Reqs |-> <<>>]
    /\ disk = {}
    /\ probe = NoProbe
    /\ result = NoResult

SpecLive == InitLive /\ [][Next]_vars /\ Fairness

-----------------------------------------------------------------------------
(* The utility functions of utils/validator.js and config/config.js, which *)
(* no route calls: each is applied to an argument drawn at the start.      *)

InitUtilities ==
    /\ request = [r \in Reqs |-> NoRequest]
    /\ pc = [r \in Reqs |-> "absent"]
    /\ file = [r \in Reqs |-> NoFile]
    /\ content = [r \in Reqs |-> ""]
    /\ answers = [r \in Reqs |-> <<>>]
    /\ idx = [r \in Reqs |-> 0]
    /\ calls = [r \in Reqs |-> <<>>]
    /\ extraction = [r \in Reqs |-> <<>>]
    /\ outcomes = [r \in Reqs |-> <<>>]
    /\ raised = [r \in Reqs |-> <<>>]
    /\ responses = [r \in Reqs |-> <<>>]
    /\ trace = [r \in Reqs |-> <<>>]
    /\ disk = {}
    /\ probe \in FileProbes \cup StringProbes \cup ConfigProbes
    /\ result = NoResult

ValidateUploadedFile ==
    /\ probe.kind = "file"
    /\ result.verdicts = <<>>
    /\ result' = [result EXCEPT !.verdicts = <<validateUploadedFile(probe.file)>>]
    /\ UNCHANGED <<request, pc, file, content, answers, idx, calls, extraction,
                   outcomes, raised, responses, trace, disk, probe>>

\* sanitizeString(s, o), and then sanitizeString of what it returned
SanitizeString ==
    /\ probe.kind = "string"
    /\ Len(result.passes) < 2
    /\ LET input == IF result.passes = <<>> THEN probe.input
                    ELSE JsString(result.passes[Len(result.passes)])
       IN  result' = [result EXCEPT
                         !.passes = Append(@, sanitizeString(input, probe.options))]
    /\ UNCHANGED <<request, pc, file, content, answers, idx, calls, extraction,
                   outcomes, raised, responses, trace, disk, probe>>

LogConfiguration(b) ==
    /\ probe.kind = "config"
    /\ result.logs[b] = <<>>
    /\ result' = [result EXCEPT !.logs[b] = <<logConfiguration(probe.env[b])>>]
    /\ UNCHANGED <<request, pc, file, content, answers, idx, calls, extraction,
                   outcomes, raised, responses, trace, disk, probe>>

NextUtilities ==
    \/ ValidateUploadedFile
    \/ SanitizeString
    \/ \E b \in Boots : LogConfiguration(b)

SpecUtilities == InitUtilities /\ [][NextUtilities]_vars

-----------------------------------------------------------------------------
(* Properties *)

Range(f) == {f[k] : k \in DOMAIN f}

Present(r) == request[r].route # "none"
IsRun(r) == request[r].route = "run"
IsUpload(r) == request[r].route = "upload"
Finished(r) == pc[r] = "done"

\* the orchestrator was entered: the route called processDocumentAndQuestions
\* or processFileAndQuestions
PipelineEntered(r) == "extract" \in Range(trace[r])

\* the single response of a finished request
StatusOf(r) == responses[r][1].status
AnswersSent(r) == responses[r][1].answers

\* what a settled generation call left the loop with: the text it returned,
\* or the fallback sentence for its question
OutcomeOf(c) ==
    IF c.status = "returned" THEN c.text
    ELSE "Sorry, I couldn't process this question: " \o c.question.s

(* C1: in URL mode the pipeline returns exactly n answers for n questions, *)
(* and answer i is the outcome of the generation call made for question i, *)
(* whatever the extraction and the generation calls did: while the loop    *)
(* runs the answers are the outcomes of the calls settled so far, in the   *)
(* order of the questions, and when the request ends the n of them are     *)
(* sent.                                                                   *)
C1_OneAnswerPerQuestion ==
    \A r \in Reqs :
        (IsRun(r) /\ PipelineEntered(r)) =>
            LET qs == request[r].body.questions.a
                settled == {k \in DOMAIN calls[r] : calls[r][k].status # "pending"}
            IN  /\ Len(qs) \in MinQuestions..MaxQuestions
                /\ Len(calls[r]) <= Len(qs)
                /\ DOMAIN answers[r] = settled
                /\ \A k \in DOMAIN calls[r] : calls[r][k].question = qs[k]
                /\ \A k \in settled : answers[r][k] = OutcomeOf(calls[r][k])
                /\ Finished(r) =>
                      /\ Len(responses[r]) = 1
                      /\ Len(AnswersSent(r)) = Len(qs)
                      /\ \A k \in 1..Len(qs) :
                            AnswersSent(r)[k] = OutcomeOf(calls[r][k])

\* a full list of ten questions answered, some calls failed and some not,
\* after a failed extraction
C1_Witness ==
    /\ IsRun(1) /\ Finished(1) /\ PipelineEntered(1)
    /\ Len(request[1].body.questions.a) = MaxQuestions
    /\ Len(AnswersSent(1)) = MaxQuestions
    /\ ~extraction[1][1].ok
    /\ \E j, k \in DOMAIN calls[1] :
          calls[1][j].status = "failed" /\ calls[1][k].status = "returned"

(* C2: per-question isolation.  A failed generation call never raises out  *)
(* of processQuestions; its slot holds exactly "Sorry, I couldn't process  *)
(* this question: " followed by the question, and the slot of a call that  *)
(* returned holds the text of the service verbatim, whatever the other     *)
(* calls did.                                                              *)
C2_PerQuestionIsolation ==
    \A r \in Reqs :
        /\ (calls[r] # <<>>) => (raised[r] = <<>>)
        /\ \A k \in DOMAIN calls[r] :
              LET c == calls[r][k]
              IN  /\ c.status = "failed" =>
                        /\ k \in DOMAIN answers[r]
                        /\ answers[r][k] =
                              "Sorry, I couldn't process this question: " \o c.question.s
                  /\ c.status = "returned" =>
                        /\ k \in DOMAIN answers[r]
                        /\ c.served
                        /\ answers[r][k] = c.text

\* two questions, the first call failed and the second returned its text
C2_Witness ==
    /\ Len(calls[1]) = 2
    /\ calls[1][1].status = "failed"
    /\ calls[1][2].status = "returned"
    /\ calls[1][1].question # calls[1][2].question
    /\ Len(answers[1]) = 2

(* C3: in URL mode a failed extraction is not fatal: every generation call *)
(* of the request is made with the empty string as context, and the        *)
(* request ends with HTTP 200 and n answers.                               *)
C3_UrlExtractionFailureTolerated ==
    \A r \in Reqs :
        (IsRun(r) /\ extraction[r] # <<>> /\ ~extraction[r][1].ok) =>
            /\ \A k \in DOMAIN calls[r] :
                  /\ calls[r][k].context = ""
                  /\ calls[r][k].prompt =
                        "Answer the following question: " \o calls[r][k].question.s
            /\ raised[r] = <<>>
            /\ Finished(r) =>
                  /\ Len(responses[r]) = 1
                  /\ StatusOf(r) = 200
                  /\ Len(AnswersSent(r)) = Len(request[r].body.questions.a)

\* a dead URL (ENOTFOUND), two questions, the request answered with 200
C3_Witness ==
    /\ IsRun(1) /\ Finished(1)
    /\ extraction[1] # <<>>
    /\ extraction[1][1].error.message = "PDF document not found at the provided URL"
    /\ Len(calls[1]) = 2
    /\ StatusOf(1) = 200

(* C4: in upload mode a failed extraction is not fatal either: the         *)
(* orchestrator goes on with the empty context, raises nothing, and the    *)
(* request ends with HTTP 200 and n answers.                               *)
C4_FileExtractionFailureTolerated ==
    \A r \in Reqs :
        (IsUpload(r) /\ extraction[r] # <<>> /\ ~extraction[r][1].ok) =>
            /\ raised[r] = <<>>
            /\ \A k \in DOMAIN calls[r] : calls[r][k].context = ""
            /\ Finished(r) =>
                  /\ StatusOf(r) = 200
                  /\ Len(AnswersSent(r)) = Len(request[r].field.value.a)

(* C5: whenever the orchestrator raises DocumentProcessingError, in URL    *)
(* mode or in upload mode, the response sent has status 422.               *)
C5_DocumentProcessingErrorIs422 ==
    \A r \in Reqs :
        (/\ raised[r] # <<>>
         /\ raised[r][1].name = "DocumentProcessingError"
         /\ Finished(r)) => StatusOf(r) = 422

\* every generation call of the request failed in the service
AllCallsFailed(r) ==
    /\ calls[r] # <<>>
    /\ \A k \in DOMAIN calls[r] : calls[r][k].status = "failed" /\ ~calls[r][k].served

C7_AuthOutcome ==
    \A r \in Reqs :
        (Present(r) /\ trace[r] # <<>>) =>
            LET h == request[r].header
                missing == ~h.present \/ h.value = ""
                prefixed == Len(h.value) >= 7 /\ SubSeq(h.value, 1, 7) = "Bearer "
                good == h.present /\ h.value = "Bearer " \o ExpectedToken
            IN  /\ trace[r][1] = "auth"
                /\ (missing \/ ~prefixed \/ ~good) =>
                      /\ Len(responses[r]) = 1
                      /\ StatusOf(r) = 401
                      /\ Finished(r)
                      /\ trace[r] = <<"auth">>
                /\ good =>
                      /\ \A k \in DOMAIN responses[r] : responses[r][k].status # 401
                      /\ trace[r] = <<"auth">> =>
                            /\ responses[r] = <<>>
                            /\ pc[r] \in {"handler", "multer"}

\* the right token: next() was called and nothing was written
C7_Witness ==
    /\ request[1].header = Header("Bearer s3cret")
    /\ trace[1] = <<"auth">>
    /\ pc[1] = "handler"
    /\ responses[1] = <<>>

(* C8: on both routes authentication comes first, and for a request that   *)
(* fails it nothing else ever happens: no validation, no staging of the    *)
(* file by multer, no extraction, no generation call.                      *)
C8_NothingAfterFailedAuth ==
    \A r \in Reqs :
        Present(r) =>
            LET h == request[r].header
                failed == \/ ~(h.present /\ h.value = "Bearer " \o ExpectedToken)
                          \/ \E k \in DOMAIN responses[r] : responses[r][k].status = 401
            IN  /\ trace[r] # <<>> => trace[r][1] = "auth"
                /\ failed =>
                      /\ Len(trace[r]) <= 1
                      /\ ~file[r].present
                      /\ PathOf(r) \notin disk
                      /\ extraction[r] = <<>>
                      /\ calls[r] = <<>>

\* an upload with a wrong token and a good PDF part, answered with 401
C8_Witness ==
    /\ IsUpload(1) /\ Finished(1)
    /\ request[1].header = Header("Bearer wrong")
    /\ request[1].part.present /\ request[1].part.mimetype = "application/pdf"
    /\ request[1].field.wellFormed
    /\ StatusOf(1) = 401
    /\ trace[1] = <<"auth">>

\* the handler of /hackrx/run ran: the request passed authentication
Validated(r) == IsRun(r) /\ "validate" \in Range(trace[r])

Rejected400(r) == Finished(r) /\ Len(responses[r]) = 1 /\ StatusOf(r) = 400

(* C9: validation boundary of an authenticated POST /hackrx/run.  A body   *)
(* is answered with 400 when questions has 0 items, when it has 11 items,  *)
(* when a question has length 4 or length 1001, and when documents is not  *)
(* an http/https URL; a body of documents and questions alone, with an     *)
(* http/https URL and 1..10 questions of length 5..1000 each, is accepted: *)
(* it reaches the pipeline and is never answered with 400.                 *)
C9_ValidationBoundary ==
    \A r \in Reqs :
        Validated(r) =>
            LET b == request[r].body
                qs == b.questions
                isList == qs.t = "array"
                httpUrl == /\ b.documents.t = "string"
                           /\ \/ /\ Len(b.documents.s) > 7
                                 /\ SubSeq(b.documents.s, 1, 7) = "http://"
                              \/ /\ Len(b.documents.s) > 8
                                 /\ SubSeq(b.documents.s, 1, 8) = "https://"
                lengthIs(n) == \E k \in DOMAIN qs.a :
                                  qs.a[k].t = "string" /\ Len(qs.a[k].s) = n
                wellFormed ==
                    /\ httpUrl /\ isList /\ ~b.extra
                    /\ Len(qs.a) >= 1 /\ Len(qs.a) <= 10
                    /\ \A k \in DOMAIN qs.a :
                          /\ qs.a[k].t = "string"
                          /\ Len(qs.a[k].s) >= 5 /\ Len(qs.a[k].s) <= 1000
            IN  /\ (isList /\ Len(qs.a) = 0) => Rejected400(r)
                /\ (isList /\ Len(qs.a) = 11) => Rejected400(r)
                /\ (isList /\ lengthIs(4)) => Rejected400(r)
                /\ (isList /\ lengthIs(1001)) => Rejected400(r)
                /\ ~httpUrl => Rejected400(r)
                /\ wellFormed =>
                      /\ PipelineEntered(r)
                      /\ \A k \in DOMAIN responses[r] : responses[r][k].status # 400

\* a single question of exactly 1000 characters was accepted
C9_Witness ==
    /\ Validated(1) /\ PipelineEntered(1)
    /\ request[1].body.questions.t = "array"
    /\ Len(request[1].body.questions.a) = 1
    /\ Len(request[1].body.questions.a[1].s) = 1000

(* C10: the length of a question is enforced on the trimmed string: a      *)
(* /hackrx/run body with a question whose trimmed length is below 5 is     *)
(* answered with 400, and every question that reaches the pipeline has a   *)
(* trimmed length in 5..1000.                                              *)
C10_TrimmedLengthEnforced ==
    \A r \in Reqs :
        Validated(r) =>
            LET qs == request[r].body.questions
                trimmedLen(k) == Len(Trim(qs.a[k].s))
            IN  /\ (/\ qs.t = "array"
                    /\ \E k \in DOMAIN qs.a : qs.a[k].t = "string" /\ trimmedLen(k) < 5)
                       => Rejected400(r)
                /\ PipelineEntered(r) =>
                      \A k \in DOMAIN qs.a : trimmedLen(k) >= 5 /\ trimmedLen(k) <= 1000

\* the handler of /hackrx/upload ran on a staged file with a questions field
\* that JSON.parse decodes to an array
UploadDecoded(r) ==
    /\ IsUpload(r) /\ "handler" \in Range(trace[r])
    /\ file[r].present
    /\ request[r].field.wellFormed
    /\ request[r].field.value.t = "array"

(* C11: upload mode applies the question constraints of URL mode: an       *)
(* authenticated /hackrx/upload request whose decoded questions array has  *)
(* more than 10 items, or holds an item that is not a string, or a string  *)
(* shorter than 5 or longer than 1000 characters, is answered with 400 and *)
(* reaches neither extraction nor generation.                              *)
C11_UploadQuestionConstraints ==
    \A r \in Reqs :
        UploadDecoded(r) =>
            LET qs == request[r].field.value.a
                offending ==
                    \/ Len(qs) > 10
                    \/ \E k \in DOMAIN qs :
                          \/ qs[k].t # "string"
                          \/ Len(qs[k].s) < 5
                          \/ Len(qs[k].s) > 1000
            IN  offending =>
                    /\ Rejected400(r)
                    /\ ~PipelineEntered(r)
                    /\ extraction[r] = <<>>
                    /\ calls[r] = <<>>

\* fs.unlink of the staged file was awaited and threw: the path is still there
UnlinkThrew(r) ==
    /\ "unlinked" \in Range(trace[r])
    /\ file[r].present
    /\ file[r].path \in disk

(* C12: upload cleanup.  For every /hackrx/upload request in which a file  *)
(* was staged, once the response has been sent the staged file no longer   *)
(* exists, on the 200 path, on the 500 path and on the 400 rejections      *)
(* issued after staging, provided the unlink call itself did not fail.     *)
C12_StagedFileRemoved ==
    \A r \in Reqs :
        (IsUpload(r) /\ file[r].present /\ Finished(r) /\ ~UnlinkThrew(r)) =>
            file[r].path \notin disk

(* C13: cleanup is never fatal.  The response of a /hackrx/upload request  *)
(* that reached the unlink of its staged file does not depend on what the  *)
(* unlink did: after a successful pipeline run it is 200 with the n        *)
(* answers of the run, after a failed run it is the 500 of the catch       *)
(* block, whether or not unlink threw.                                     *)
C13_CleanupNeverFatal ==
    \A r \in Reqs :
        (IsUpload(r) /\ Finished(r) /\ "unlink" \in Range(trace[r])) =>
            /\ Len(responses[r]) = 1
            /\ raised[r] = <<>> =>
                  /\ StatusOf(r) = 200
                  /\ AnswersSent(r) = answers[r]
                  /\ Len(AnswersSent(r)) = Len(request[r].field.value.a)
                  /\ responses[r][1].error = ""
            /\ raised[r] # <<>> =>
                  /\ StatusOf(r) = 500
                  /\ responses[r][1].error = "Internal Server Error"
                  /\ responses[r][1].message = "Failed to process uploaded file"
                  /\ AnswersSent(r) = <<>>

\* the unlink threw after a successful run of two questions, and the caller
\* got the two answers with 200
C13_Witness ==
    /\ IsUpload(1) /\ Finished(1)
    /\ UnlinkThrew(1)
    /\ raised[1] = <<>>
    /\ StatusOf(1) = 200
    /\ Len(AnswersSent(1)) = 2

\* a body of /hackrx/run that meets every rule of the request schema
WellFormedRunBody(b) ==
    /\ ~b.extra
    /\ b.documents.t = "string"
    /\ \/ Len(b.documents.s) > 7 /\ SubSeq(b.documents.s, 1, 7) = "http://"
       \/ Len(b.documents.s) > 8 /\ SubSeq(b.documents.s, 1, 8) = "https://"
    /\ b.questions.t = "array"
    /\ Len(b.questions.a) >= 1 /\ Len(b.questions.a) <= 10
    /\ \A k \in DOMAIN b.questions.a :
          /\ b.questions.a[k].t = "string"
          /\ Len(b.questions.a[k].s) >= 5 /\ Len(b.questions.a[k].s) <= 1000

(* C14: a /hackrx/run request that fails validation is answered with 400   *)
(* carrying a non-empty details list whose entries hold a field and a      *)
(* message, and for such a request no extraction and no generation call is *)
(* ever performed.                                                         *)
C14_ValidationFailureDetails ==
    \A r \in Reqs :
        (Validated(r) /\ ~WellFormedRunBody(request[r].body)) =>
            /\ Rejected400(r)
            /\ responses[r][1].error = "Validation Error"
            /\ responses[r][1].details # <<>>
            /\ \A k \in DOMAIN responses[r][1].details :
                  LET d == responses[r][1].details[k]
                  IN  /\ {"field", "message"} \subseteq DOMAIN d
                      /\ d.field # "" /\ d.message # ""
            /\ ~PipelineEntered(r)
            /\ extraction[r] = <<>>
            /\ outcomes[r] = <<>>
            /\ calls[r] = <<>>

\* a body with a bad documents value and a bad question: both are reported
C14_Witness ==
    /\ Validated(1) /\ Rejected400(1)
    /\ Len(responses[1][1].details) >= 2
    /\ \E j, k \in DOMAIN responses[1][1].details :
          /\ responses[1][1].details[j].field = "documents"
          /\ responses[1][1].details[k].field = "questions.0"

\* the questions of the request, as the orchestrator receives them
Asked(r) ==
    IF IsRun(r) THEN request[r].body.questions.a ELSE request[r].field.value.a

Count(seq, x) == Cardinality({p \in DOMAIN seq : seq[p] = x})

(* C15: sequential, in-order generation.  The k-th generation call of a    *)
(* request is the call for its k-th question, at most one call is in       *)
(* flight at any time, and a call is started only when every earlier call  *)
(* has completed (returned or failed): only the last call made can be      *)
(* pending, and in the trace every start of a call is followed by its      *)
(* completion before anything else happens.                                *)
C15_SequentialInOrder ==
    \A r \in Reqs :
        (calls[r] # <<>>) =>
            /\ Len(calls[r]) <= Len(Asked(r))
            /\ \A k \in DOMAIN calls[r] : calls[r][k].question = Asked(r)[k]
            /\ Cardinality({k \in DOMAIN calls[r] : calls[r][k].status = "pending"}) <= 1
            /\ \A k \in DOMAIN calls[r] :
                  calls[r][k].status = "pending" => k = Len(calls[r])
            /\ (pc[r] = "generating") <=> (calls[r][Len(calls[r])].status = "pending")
            /\ \A p \in DOMAIN trace[r] :
                  (trace[r][p] = "generate" /\ p < Len(trace[r])) =>
                      trace[r][p + 1] = "generated"

\* the second call is in flight after the first one failed
C15_Witness ==
    /\ Len(calls[1]) = 2
    /\ calls[1][1].status = "failed"
    /\ calls[1][2].status = "pending"
    /\ calls[1][1].question # calls[1][2].question

PhaseOfStep(step) ==
    CASE step \in {"auth", "multer", "validate", "handler"} -> 1
      [] step \in {"extract", "extracted"} -> 2
      [] step \in {"generate", "generated"} -> 3
      [] OTHER -> 4

\* the phase a suspended request is in
PhaseOfPc(p) ==
    CASE p \in {"auth", "multer", "handler"} -> 1
      [] p = "extracting" -> 2
      [] p = "generating" -> 3
      [] OTHER -> 4

(* C17: extraction precedes generation.  In URL mode and in upload mode no *)
(* generation call starts before the extraction has completed,             *)
(* successfully or not, and the phases of a request occur only in the      *)
(* order Validating, Extracting, Generating, Completed/Failed: no phase is *)
(* entered again once left.                                                *)
C17_ExtractionPrecedesGeneration ==
    \A r \in Reqs :
        /\ (calls[r] # <<>>) => (Len(extraction[r]) = 1 /\ pc[r] # "extracting")
        /\ \A p \in DOMAIN trace[r] :
              trace[r][p] = "generate" =>
                  \E e \in 1..(p - 1) : trace[r][e] = "extracted"
        /\ \A p, q \in DOMAIN trace[r] :
              p < q => PhaseOfStep(trace[r][p]) <= PhaseOfStep(trace[r][q])
        /\ (trace[r] # <<>>) => PhaseOfStep(trace[r][Len(trace[r])]) <= PhaseOfPc(pc[r])
        /\ (pc[r] = "extracting") => (extraction[r] = <<>> /\ calls[r] = <<>>)
        /\ (pc[r] = "generating") => (Len(extraction[r]) = 1)

\* an upload that went through every phase, one question
C17_Witness ==
    /\ IsUpload(1) /\ Finished(1)
    /\ trace[1] = <<"auth", "multer", "handler", "extract", "extracted",
                    "generate", "generated", "unlink", "unlinked">>

\* a text made of white space only (the empty text included)
Blank(s) == \A p \in 1..Len(s) : SubSeq(s, p, p) \in {" ", "\t", "\n"}

(* C18: empty extracted content is never used as context.  The context of  *)
(* every generation call is the empty string or a text that is not blank;  *)
(* a document whose parsed text is empty or made of white space only makes *)
(* the extraction fail, and a successful extraction returns the parsed     *)
(* text, which is not blank.                                               *)
C18_NoBlankContext ==
    \A r \in Reqs :
        /\ \A k \in DOMAIN calls[r] :
              calls[r][k].context = "" \/ ~Blank(calls[r][k].context)
        /\ content[r] = "" \/ ~Blank(content[r])
        /\ \A k \in DOMAIN extraction[r] :
              /\ (~outcomes[r][k].threw /\ Blank(outcomes[r][k].text)) =>
                    /\ ~extraction[r][k].ok
                    /\ content[r] = ""
              /\ extraction[r][k].ok =>
                    /\ ~Blank(extraction[r][k].text)
                    /\ extraction[r][k].text = outcomes[r][k].text

\* a document of white space only: the extraction failed and the call was
\* made without context
C18_Witness ==
    /\ IsRun(1)
    /\ outcomes[1] = <<Parsed(" \n ")>>
    /\ ~extraction[1][1].ok
    /\ calls[1] # <<>>
    /\ calls[1][1].context = ""

HasPrefix(s, p) == Len(s) >= Len(p) /\ SubSeq(s, 1, Len(p)) = p

\* the kind of failure the download and the parse ended with
ClassOfCause(o) ==
    IF ~o.threw THEN "empty"
    ELSE IF o.error.response # "" THEN "download"
    ELSE IF o.error.code = "ENOTFOUND" THEN "notfound"
    ELSE IF o.error.code = "ETIMEDOUT" THEN "timeout"
    ELSE "processing"

\* the kind of failure a caller reads from the error raised
ClassOfMessage(m) ==
    IF HasPrefix(m, "Failed to download PDF: ") THEN "download"
    ELSE IF m = "PDF document not found at the provided URL" THEN "notfound"
    ELSE IF m = "Timeout while downloading PDF document" THEN "timeout"
    ELSE IF m = "PDF processing failed: PDF contains no extractable text" THEN "empty"
    ELSE IF HasPrefix(m, "PDF processing failed: ") THEN "processing"
    ELSE "unknown"

(* C19: extractTextFromUrl classifies its failures by fixed precedence: a  *)
(* failure that carries an HTTP response raises the download failure with  *)
(* the status; otherwise code ENOTFOUND raises not-found; otherwise        *)
(* ETIMEDOUT raises timeout; every other failure, parse failure and empty  *)
(* content included, raises the generic processing failure with the        *)
(* message of its cause; so the kind of failure (download, not-found,      *)
(* timeout, parse failure, empty content) can be read from the error       *)
(* raised.                                                                 *)
C19_UrlFailureClassification ==
    \A r \in Reqs :
        (IsRun(r) /\ extraction[r] # <<>> /\ ~extraction[r][1].ok) =>
            LET o == outcomes[r][1]
                e == o.error
                m == extraction[r][1].error.message
            IN  /\ extraction[r][1].error.name = "Error"
                /\ (o.threw /\ e.response # "") =>
                      m = "Failed to download PDF: " \o e.response
                /\ (o.threw /\ e.response = "" /\ e.code = "ENOTFOUND") =>
                      m = "PDF document not found at the provided URL"
                /\ (o.threw /\ e.response = "" /\ e.code = "ETIMEDOUT") =>
                      m = "Timeout while downloading PDF document"
                /\ (o.threw /\ e.response = "" /\ e.code \notin {"ENOTFOUND", "ETIMEDOUT"}) =>
                      m = "PDF processing failed: " \o e.message
                /\ ~o.threw =>
                      m = "PDF processing failed: PDF contains no extractable text"
                /\ ClassOfMessage(m) = ClassOfCause(o)

\* a failure that carries both an HTTP response and the code ENOTFOUND was
\* raised as a download failure
C19_Witness ==
    /\ IsRun(1) /\ outcomes[1] # <<>>
    /\ outcomes[1][1].threw
    /\ outcomes[1][1].error.response = "502 Bad Gateway"
    /\ outcomes[1][1].error.code = "ENOTFOUND"
    /\ extraction[1][1].error.message = "Failed to download PDF: 502 Bad Gateway"

OwnContext(r) ==
    IF extraction[r] # <<>> /\ extraction[r][1].ok THEN outcomes[r][1].text ELSE ""

\* what the service answers to the question q of a request whose context is ctx
OwnReply(q, ctx) ==
    IF ctx = "" THEN "Reply to: Answer the following question: " \o q.s
    ELSE "Reply to: Based on the following document content, answer the question.\n\nDocument Content:\n"
         \o ctx \o "\n\nQuestion: " \o q.s \o "\n\nAnswer:"

\* the calls and the answers of request r come from its own questions and
\* its own context, in its own order
OwnResult(r) ==
    (calls[r] # <<>>) =>
        /\ content[r] = OwnContext(r)
        /\ Len(calls[r]) <= Len(Asked(r))
        /\ Len(answers[r]) <= Len(calls[r])
        /\ \A k \in DOMAIN calls[r] :
              /\ calls[r][k].question = Asked(r)[k]
              /\ calls[r][k].context = OwnContext(r)
        /\ \A k \in DOMAIN answers[r] :
              answers[r][k] \in
                  {OwnReply(Asked(r)[k], OwnContext(r)),
                   "Sorry, I couldn't process this question: " \o Asked(r)[k].s}
        /\ (Finished(r) /\ StatusOf(r) = 200) =>
              /\ AnswersSent(r) = answers[r]
              /\ Len(AnswersSent(r)) = Len(Asked(r))

\* a step that is not a step of request r leaves everything of r alone
OthersUntouched ==
    \A r \in Reqs :
        (trace'[r] = trace[r]) =>
            /\ pc'[r] = pc[r] /\ file'[r] = file[r]
            /\ content'[r] = content[r] /\ answers'[r] = answers[r]
            /\ idx'[r] = idx[r] /\ calls'[r] = calls[r]
            /\ extraction'[r] = extraction[r] /\ outcomes'[r] = outcomes[r]
            /\ raised'[r] = raised[r] /\ responses'[r] = responses[r]
            /\ (PathOf(r) \in disk') <=> (PathOf(r) \in disk)

(* C21: request independence under interleaving.  With two requests served *)
(* at once and their awaits interleaved in any order, the answers of each  *)
(* request are outcomes of generation calls made for its own questions     *)
(* with its own context, in its own order and of its own length, and a     *)
(* step of one request changes nothing of the other: no answer, context or *)
(* partial result crosses from one request to another.                     *)
C21_RequestIndependence ==
    /\ [](\A r \in Reqs : OwnResult(r))
    /\ [][OthersUntouched]_vars

\* both requests are in the middle of their generation loops, with
\* different contexts
C21_Witness ==
    /\ pc[1] = "generating" /\ pc[2] = "generating"
    /\ Len(calls[1]) = 2 /\ answers[1] # <<>>
    /\ Len(calls[2]) = 1
    /\ content[1] # content[2]
    /\ request[1].route # request[2].route

\* the violations reported to a request of /hackrx/run
DetailsOf(r) ==
    IF responses[r] # <<>> /\ StatusOf(r) = 400 THEN responses[r][1].details ELSE <<>>

Reported(r, field, message) ==
    \E k \in DOMAIN DetailsOf(r) :
        DetailsOf(r)[k].field = field /\ DetailsOf(r)[k].message = message

ReportedField(r, field) ==
    \E k \in DOMAIN DetailsOf(r) : DetailsOf(r)[k].field = field

FileChecked(endsInPdf(_)) ==
    \A k \in DOMAIN result.verdicts :
        LET f == probe.file
            v == result.verdicts[k]
            mimeOk == f.mimetype = "application/pdf"
            sizeOk == f.size <= 20 * 1024 * 1024
            nameOk == endsInPdf(f.originalname)
        IN  /\ v.isValid <=> (f.present /\ mimeOk /\ sizeOk /\ nameOk)
            /\ ~f.present => v.error = "No file uploaded"
            /\ (f.present /\ ~mimeOk) => v.error = "Invalid file type"
            /\ (f.present /\ mimeOk /\ ~sizeOk) => v.error = "File too large"
            /\ (f.present /\ mimeOk /\ sizeOk /\ ~nameOk) => v.error = "Invalid filename"

EndsInPdfExactly(name) ==
    Len(name) >= 4 /\ SubSeq(name, Len(name) - 3, Len(name)) = ".pdf"

EndsInPdfAnyCase(name) ==
    /\ Len(name) >= 4
    /\ SubSeq(name, Len(name) - 3, Len(name) - 3) = "."
    /\ SubSeq(name, Len(name) - 2, Len(name) - 2) \in {"p", "P"}
    /\ SubSeq(name, Len(name) - 1, Len(name) - 1) \in {"d", "D"}
    /\ SubSeq(name, Len(name), Len(name)) \in {"f", "F"}

(* C23, as claimed: validateUploadedFile reports isValid exactly when the  *)
(* file object is non-null, its MIME type is exactly "application/pdf",    *)
(* its size is at most 20 MiB and its original filename ends in ".pdf";    *)
(* when several checks fail the error is that of the first one in the      *)
(* order null, MIME type, size, filename.                                  *)
C23_FileValidatedExactSuffix == FileChecked(EndsInPdfExactly)

(* C23, amended: the same, with the filename compared without regard to    *)
(* case: isValid exactly when the file object is non-null, its MIME type   *)
(* is exactly "application/pdf", its size is at most 20 MiB (the boundary  *)
(* accepted) and its original filename, lower-cased, ends in ".pdf"; the   *)
(* error reported is that of the first failing check in the order null,    *)
(* MIME type, size, filename.                                              *)
C23_FileValidatedAnyCase == FileChecked(EndsInPdfAnyCase)

\* a PDF of exactly 20 MiB named REPORT.PDF was found valid
C23_Witness ==
    /\ probe.kind = "file"
    /\ probe.file.size = 20 * 1024 * 1024
    /\ probe.file.originalname = "REPORT.PDF"
    /\ result.verdicts # <<>>
    /\ result.verdicts[1].isValid

\* an environment variable that is set to something
IsSet(v) == v.t = "string" /\ v.s # ""

(* C24: logConfiguration logs the configuration without sensitive data:    *)
(* what it logs does not depend on the values of AUTH_BEARER_TOKEN and     *)
(* GEMINI_API_KEY beyond whether they are set, so two starts of the        *)
(* process whose environments differ only in the values of the secrets log *)
(* the same output.                                                        *)
C24_LogIndependentOfSecrets ==
    \A b1, b2 \in Boots :
        (/\ probe.kind = "config"
         /\ result.logs[b1] # <<>> /\ result.logs[b2] # <<>>
         /\ probe.env[b1].PORT = probe.env[b2].PORT
         /\ IsSet(probe.env[b1].GEMINI_API_KEY) <=> IsSet(probe.env[b2].GEMINI_API_KEY)
         /\ IsSet(probe.env[b1].AUTH_BEARER_TOKEN) <=> IsSet(probe.env[b2].AUTH_BEARER_TOKEN))
            => result.logs[b1] = result.logs[b2]

(* C25: fallback only on service failure.  In URL mode and in upload mode, *)
(* for every value the route admits as a question, answer slot i holds the *)
(* fallback sentence only if the generation service failed on question i,  *)
(* and whenever the service returned a text for question i, slot i is that *)
(* text.                                                                   *)
C25_FallbackOnlyOnServiceFailure ==
    \A r \in Reqs :
        \A k \in DOMAIN answers[r] :
            LET c == calls[r][k]
                fallback == "Sorry, I couldn't process this question: " \o c.question.s
            IN  /\ answers[r][k] = fallback => ~c.served
                /\ c.served => answers[r][k] = c.text

(* C26: exactly one response per request.  On every path of /hackrx/run    *)
(* and /hackrx/upload (rejection by the authentication, by multer, by the  *)
(* validation, success, pipeline failure, cleanup failure) no response is  *)
(* written while the request is being served and exactly one has been      *)
(* written when it ends, never two; errorHandler, called on a request that *)
(* has its response, writes nothing.                                       *)
C26_ExactlyOneResponse ==
    \A r \in Reqs :
        Present(r) =>
            /\ Len(responses[r]) <= 1
            /\ Finished(r) <=> (Len(responses[r]) = 1)
            /\ Finished(r) =>
                  errorHandler(Cur(r), FileSizeError).responses = responses[r]

\* an upload refused by multer for its size: errorHandler wrote the one
\* response
C26_Witness ==
    /\ IsUpload(1) /\ Finished(1)
    /\ trace[1] = <<"auth", "multer">>
    /\ Len(responses[1]) = 1
    /\ StatusOf(1) = 413

\* the request carries the configured token
Authenticated(r) == Present(r) /\ request[r].header.value = "Bearer " \o ExpectedToken

(* C27: termination.  When every collaborator call eventually returns or   *)
(* fails, every authenticated request eventually ends with its response    *)
(* sent, and a question whose call failed does not keep the later          *)
(* questions from being processed: all the n answer slots are eventually   *)
(* filled.                                                                 *)
C27_Termination ==
    \A r \in Reqs :
        /\ Authenticated(r) ~> (Finished(r) /\ Len(responses[r]) = 1)
        /\ (\E k \in DOMAIN calls[r] : calls[r][k].status = "failed")
              ~> (Len(answers[r]) = Len(Asked(r)))

\* a request ended after its first call failed and its second call was made
C27_Witness ==
    /\ Authenticated(1) /\ Finished(1)
    /\ Len(calls[1]) = 2
    /\ calls[1][1].status = "failed"
    /\ calls[1][2].status = "returned"
    /\ Len(answers[1]) = 2

(* C28: in POST /hackrx/run the two checks that follow validateRequest     *)
(* (questions not a non-empty array, more than 10 questions) are never     *)
(* taken: a body that validateRequest finds valid has an array of 1 to 10  *)
(* questions, so every 400 of the route is the one of the validateRequest  *)
(* branch, with its message and its details.                               *)
C28_InlineChecksUnreachable ==
    \A r \in Reqs :
        Validated(r) =>
            /\ \A k \in DOMAIN responses[r] :
                  /\ responses[r][k].message \notin
                        {"Questions must be a non-empty array",
                         "Maximum 10 questions allowed per request"}
                  /\ responses[r][k].status = 400 =>
                        /\ responses[r][k].message = "Request body validation failed"
                        /\ responses[r][k].details # <<>>
            /\ (responses[r] = <<>> \/ StatusOf(r) # 400) =>
                  /\ request[r].body.questions.t = "array"
                  /\ Len(request[r].body.questions.a) >= 1
                  /\ Len(request[r].body.questions.a) <= 10

\* eleven good questions and a good URL: refused by validateRequest
C28_Witness ==
    /\ Validated(1) /\ Rejected400(1)
    /\ request[1].body.documents.s = "http://host/doc.pdf"
    /\ ~request[1].body.extra
    /\ Len(request[1].body.questions.a) = 11
    /\ responses[1][1].message = "Request body validation failed"
    /\ Len(responses[1][1].details) = 1

(* C29: validateRequest rejects a body that holds a field other than       *)
(* documents and questions: a body with valid documents and questions and  *)
(* one extra key is answered with 400, the extra key named in the details, *)
(* and never reaches the pipeline.                                         *)
C29_UnknownKeyRejected ==
    \A r \in Reqs :
        (Validated(r) /\ request[r].body.extra) =>
            /\ Rejected400(r)
            /\ \E k \in DOMAIN responses[r][1].details :
                  /\ responses[r][1].details[k].field = "extra"
                  /\ responses[r][1].details[k].message = "\"extra\" is not allowed"
            /\ ~PipelineEntered(r)
            /\ extraction[r] = <<>>
            /\ calls[r] = <<>>

\* a body that is valid but for its extra key: the key is the only
\* violation reported
C29_Witness ==
    /\ Validated(1) /\ Rejected400(1)
    /\ request[1].body.extra
    /\ request[1].body.documents.s = "https://host/doc.pdf"
    /\ request[1].body.questions.a = <<Q1, Q2>>
    /\ Len(responses[1][1].details) = 1
    /\ responses[1][1].details[1].field = "extra"

(* C30: sanitizeString is idempotent and normalizing: applying it to its   *)
(* own result with the same options returns that result again; the result  *)
(* is no longer than maxLength (1000 when the option is not given), has no *)
(* leading or trailing white space, and holds no null byte and no control  *)
(* character unless allowControlChars is set; an input that is not a       *)
(* string yields the empty string.                                         *)
C30_SanitizeIdempotentNormalizing ==
    (probe.kind = "string") =>
        LET maxLength == IF probe.options.maxLength = 0 THEN 1000
                         ELSE probe.options.maxLength
            space == {9, 10, 11, 12, 13, 32}
            control == (0..8) \cup {11, 12} \cup (14..31) \cup {127}
        IN  /\ Len(result.passes) = 2 => result.passes[2] = result.passes[1]
            /\ (result.passes # <<>> /\ ~probe.input.isString) => result.passes[1] = <<>>
            /\ \A k \in DOMAIN result.passes :
                  LET out == result.passes[k]
                  IN  /\ Len(out) <= maxLength
                      /\ out # <<>> => (out[1] \notin space /\ out[Len(out)] \notin space)
                      /\ ~probe.options.allowControlChars =>
                            \A p \in DOMAIN out : out[p] \notin control

=============================================================================
